---- MODULE Spec2Model ----
(***************************************************************************)
(* MongoDBBlockInputStream: a block input stream that drains a MongoDB     *)
(* cursor page by page and converts every document into one row of a       *)
(* typed, column-oriented block (dbms/src/Dictionaries/                    *)
(* MongoDBBlockInputStream.cpp).                                           *)
(*                                                                         *)
(* Machine integers are bit vectors, least significant bit first, of the   *)
(* width of their C++ type, so that 64-bit values and wraparound are exact.*)
(* Floating point values are exact dyadic numbers m * 2^e with the         *)
(* mantissa m as a bit vector, most significant bit first.  Strings are    *)
(* sequences of byte values.                                               *)
(***************************************************************************)
EXTENDS Integers, Sequences, FiniteSets, TLC

(***************************************************************************)
(*                          Bounds of the model                            *)
(***************************************************************************)
\* documents in one page returned by the cursor
MaxDocs == 3
\* documents handed out by the cursor over the whole life of the stream
MaxTotalDocs == 3
\* cursor pulls (successful or failing) over the whole life of the stream
MaxPulls == 3
\* largest max_block_size the constructor is given
MaxBlockSize == 2

(***************************************************************************)
(*                     Bit vectors (machine integers)                      *)
(***************************************************************************)
RECURSIVE Bits(_, _)
\* the w low bits of the integer v in two's complement, LSB first
Bits(v, w) == IF w = 0 THEN <<>> ELSE <<v % 2>> \o Bits(v \div 2, w - 1)

RECURSIVE ToNat(_)
\* the unsigned reading of a (short) bit vector
ToNat(b) == IF b = <<>> THEN 0 ELSE Head(b) + 2 * ToNat(Tail(b))

\* the signed (two's complement) reading of a (short) bit vector
ToInt(b) ==
    IF b[Len(b)] = 1 THEN ToNat(b) - 2 * ToNat([i \in 1..Len(b) |-> IF i = Len(b) THEN 1 ELSE 0])
    ELSE ToNat(b)

Reverse(s) == [i \in 1..Len(s) |-> s[Len(s) + 1 - i]]

Zeros(n) == [i \in 1..n |-> 0]

\* b widened to n bits: sign-extended when its type is signed, else zero-extended
Extend(b, isSigned, n) ==
    [i \in 1..n |-> IF i <= Len(b) THEN b[i]
                    ELSE IF isSigned THEN b[Len(b)] ELSE 0]

RECURSIVE IncLsb(_)
\* b + 1 modulo 2^Len(b), LSB first
IncLsb(b) ==
    IF b = <<>> THEN <<>>
    ELSE IF Head(b) = 0 THEN <<1>> \o Tail(b)
    ELSE <<0>> \o IncLsb(Tail(b))

\* -b modulo 2^Len(b)
Negate(b) == IncLsb([i \in 1..Len(b) |-> 1 - b[i]])

RECURSIVE StripLeadingZeros(_)
\* an MSB-first bit vector without its leading zeros
StripLeadingZeros(m) ==
    IF m = <<>> THEN <<>>
    ELSE IF Head(m) = 1 THEN m
    ELSE StripLeadingZeros(Tail(m))

RECURSIVE StripTrailingZeros(_)
StripTrailingZeros(m) ==
    IF m = <<>> THEN <<>>
    ELSE IF m[Len(m)] = 1 THEN m
    ELSE StripTrailingZeros(SubSeq(m, 1, Len(m) - 1))

(***************************************************************************)
(*                         Target column types                             *)
(***************************************************************************)
IntTypes == {"UInt8", "UInt16", "UInt32", "UInt64", "Int8", "Int16", "Int32", "Int64"}
FloatTypes == {"Float32", "Float64"}
NumberTypes == IntTypes \cup FloatTypes
ValueType == NumberTypes \cup {"String", "Date", "DateTime"}

\* sizeof(T) * 8 of the integer types
Width(T) ==
    CASE T \in {"UInt8", "Int8"} -> 8
      [] T \in {"UInt16", "Int16"} -> 16
      [] T \in {"UInt32", "Int32"} -> 32
      [] T \in {"UInt64", "Int64"} -> 64

IsSigned(T) == T \in {"Int8", "Int16", "Int32", "Int64"}

\* significand precision of the floating point types
Precision(T) == IF T = "Float32" THEN 24 ELSE 53

(***************************************************************************)
(*                           Floating point                                *)
(***************************************************************************)
FloatZero == [neg |-> FALSE, m |-> <<>>, e |-> 0]

\* the float neg * m * 2^e with its mantissa made odd
Normalize(neg, m, e) ==
    LET s == StripLeadingZeros(m)
        t == StripTrailingZeros(s)
    IN  IF s = <<>> THEN FloatZero
        ELSE [neg |-> neg, m |-> t, e |-> e + (Len(s) - Len(t))]

\* round-to-nearest-even of the float f to p significant bits
RoundFloat(f, p) ==
    IF Len(f.m) <= p THEN f
    ELSE LET head == SubSeq(f.m, 1, p)
             rest == SubSeq(f.m, p + 1, Len(f.m))
             half == <<1>> \o Zeros(Len(rest) - 1)
             above == rest[1] = 1 /\ rest # half
             tie == rest = half
             up == above \/ (tie /\ head[p] = 1)
             kept == IF up THEN Reverse(IncLsb(Reverse(<<0>> \o head))) ELSE head
         IN  Normalize(f.neg, kept, f.e + Len(rest))

\* static_cast of an integer (bit vector b of a signed or unsigned type) to a
\* floating point type of precision p
IntToFloat(b, isSigned, p) ==
    LET neg == isSigned /\ b[Len(b)] = 1
        mag == IF neg THEN Negate(b) ELSE b
    IN  RoundFloat(Normalize(neg, Reverse(mag), 0), p)

\* static_cast of a float to the integer type T: truncation toward zero.  Defined
\* by C++ only when the truncated value is representable in T.
FloatToInt(f, T) ==
    LET mag == IF f.e >= 0 THEN f.m \o Zeros(f.e)
               ELSE SubSeq(f.m, 1, Len(f.m) + f.e)
        lsb == Extend(Reverse(mag), FALSE, 64)
        full == IF f.neg THEN Negate(lsb) ELSE lsb
    IN  SubSeq(full, 1, Width(T))

(***************************************************************************)
(*                  Elements, documents and exceptions                     *)
(***************************************************************************)
\* the runtime type tags of Poco::MongoDB::Element (ElementTraits<X>::TypeId)
TypeIds == {"Null", "Bool", "Int32", "Int64", "Float64", "String", "Timestamp"}

Element(type, value) == [type |-> type, value |-> value]

\* Document::get(name): the first element of that name, a null pointer (the
\* empty sequence) when the document has none
Get(document, name) ==
    LET hits == {i \in 1..Len(document) : document[i].name = name}
    IN  IF hits = {} THEN <<>>
        ELSE <<document[CHOOSE i \in hits : \A j \in hits : i <= j].element>>

NoException == [code |-> "none", message |-> <<>>]

\* Exception("Type mismatch, expected <expected>, got type id = " +
\*           toString(value.type()) + " for column " + name, TYPE_MISMATCH)
TypeMismatch(expected, value, name) ==
    [code |-> "TYPE_MISMATCH",
     message |-> <<"Type mismatch, expected ", expected, ", got type id = ",
                   value.type, " for column ", name>>]

\* the result of an insertion: the column grown by one value, or an exception
Inserted(column) == [ok |-> TRUE, column |-> column, exception |-> NoException]
Thrown(exception) == [ok |-> FALSE, column |-> <<>>, exception |-> exception]

(***************************************************************************)
(*                            Text parsing                                 *)
(***************************************************************************)
Digits == 48..57

RECURSIVE DecimalValue(_)
DecimalValue(s) ==
    IF s = <<>> THEN 0
    ELSE 10 * DecimalValue(SubSeq(s, 1, Len(s) - 1)) + (s[Len(s)] - 48)

\* parse<T>(text): the value of a decimal text as a T, an exception for malformed text
parse(T, text) ==
    IF text # <<>> /\ \A i \in 1..Len(text) : text[i] \in Digits
    THEN [ok |-> TRUE,
          value |-> IF T \in FloatTypes
                    THEN IntToFloat(Bits(DecimalValue(text), 64), FALSE, Precision(T))
                    ELSE Bits(DecimalValue(text), Width(T)),
          exception |-> NoException]
    ELSE [ok |-> FALSE, value |-> <<>>,
          exception |-> [code |-> "CANNOT_PARSE_TEXT", message |-> <<"Cannot parse ", text>>]]

(***************************************************************************)
(*                     insertNumber and insertValue                        *)
(***************************************************************************)
\* the implicit conversion of an integer source (Int32, Int64 or bool) to T on
\* push_back into ColumnVector<T>
IntegerToNumber(T, b, isSigned) ==
    IF T \in FloatTypes THEN IntToFloat(b, isSigned, Precision(T))
    ELSE SubSeq(Extend(b, isSigned, 64), 1, Width(T))

\* the implicit conversion of a Float64 source to T
Float64ToNumber(T, f) ==
    IF T \in FloatTypes THEN RoundFloat(f, Precision(T))
    ELSE FloatToInt(f, T)

\* T{}: the value emplace_back() appends
ZeroOf(T) == IF T \in FloatTypes THEN FloatZero ELSE Zeros(Width(T))

\* faulty variant without the case for a Null element
insertNumber_NoNullCase(T, column, value, name) ==
    CASE value.type = "Int32" -> Inserted(Append(column, IntegerToNumber(T, value.value, TRUE)))
      [] value.type = "Int64" -> Inserted(Append(column, IntegerToNumber(T, value.value, TRUE)))
      [] value.type = "Float64" -> Inserted(Append(column, Float64ToNumber(T, value.value)))
      [] value.type = "Bool" -> Inserted(Append(column, IntegerToNumber(T, value.value, FALSE)))
      [] value.type = "String" ->
            LET parsed == parse(T, value.value)
            IN  IF parsed.ok THEN Inserted(Append(column, parsed.value))
                ELSE Thrown(parsed.exception)
      [] OTHER -> Thrown(TypeMismatch("a number", value, name))

\* faulty variant that reads an Int64 element through the Int32 accessor
insertNumber_Int64AsInt32(T, column, value, name) ==
    CASE value.type = "Int32" -> Inserted(Append(column, IntegerToNumber(T, value.value, TRUE)))
      [] value.type = "Int64" ->
            Inserted(Append(column, IntegerToNumber(T, SubSeq(value.value, 1, 32), TRUE)))
      [] value.type = "Float64" -> Inserted(Append(column, Float64ToNumber(T, value.value)))
      [] value.type = "Bool" -> Inserted(Append(column, IntegerToNumber(T, value.value, FALSE)))
      [] value.type = "Null" -> Inserted(Append(column, ZeroOf(T)))
      [] value.type = "String" ->
            LET parsed == parse(T, value.value)
            IN  IF parsed.ok THEN Inserted(Append(column, parsed.value))
                ELSE Thrown(parsed.exception)
      [] OTHER -> Thrown(TypeMismatch("a number", value, name))

insertNumber(T, column, value, name) ==
    CASE value.type = "Int32" -> Inserted(Append(column, IntegerToNumber(T, value.value, TRUE)))
      [] value.type = "Int64" -> Inserted(Append(column, IntegerToNumber(T, value.value, TRUE)))
      [] value.type = "Float64" -> Inserted(Append(column, Float64ToNumber(T, value.value)))
      [] value.type = "Bool" -> Inserted(Append(column, IntegerToNumber(T, value.value, FALSE)))
      [] value.type = "Null" -> Inserted(Append(column, ZeroOf(T)))
      [] value.type = "String" ->
            LET parsed == parse(T, value.value)
            IN  IF parsed.ok THEN Inserted(Append(column, parsed.value))
                ELSE Thrown(parsed.exception)
      [] OTHER -> Thrown(TypeMismatch("a number", value, name))

\* ColumnString::insertDataWithTerminatingZero(pos, length): appends the length - 1
\* bytes before the terminating zero as one string
insertDataWithTerminatingZero(column, data, length) ==
    Append(column, SubSeq(data, 1, length - 1))

\* std::string::data(): the bytes followed by a terminating zero
CStr(string) == string \o <<0>>

SecondsPerDay == 24 * 60 * 60

\* DateLUT::toDayNum(t): the day index of an epoch-seconds value t >= 0 (UTC)
toDayNum(t) == ToNat(t) \div SecondsPerDay

\* faulty variant whose Date case stores the seconds, not the day number
insertValue_DateStoresSeconds(column, type, value, name) ==
    CASE type \in NumberTypes -> insertNumber(type, column, value, name)
      [] type = "String" ->
            IF value.type # "String" THEN Thrown(TypeMismatch("String", value, name))
            ELSE Inserted(insertDataWithTerminatingZero(
                     column, CStr(value.value), Len(value.value) + 1))
      [] type = "Date" ->
            IF value.type # "Timestamp" THEN Thrown(TypeMismatch("Timestamp", value, name))
            ELSE Inserted(Append(column, SubSeq(value.value, 1, 16)))
      [] type = "DateTime" ->
            IF value.type # "Timestamp" THEN Thrown(TypeMismatch("Timestamp", value, name))
            ELSE Inserted(Append(column, SubSeq(value.value, 1, 32)))

\* faulty variant that passes the string's size without its terminating zero
insertValue_StringNoTerminator(column, type, value, name) ==
    CASE type \in NumberTypes -> insertNumber(type, column, value, name)
      [] type = "String" ->
            IF value.type # "String" THEN Thrown(TypeMismatch("String", value, name))
            ELSE Inserted(insertDataWithTerminatingZero(
                     column, CStr(value.value), Len(value.value)))
      [] type = "Date" ->
            IF value.type # "Timestamp" THEN Thrown(TypeMismatch("Timestamp", value, name))
            ELSE Inserted(Append(column, Bits(toDayNum(value.value), 16)))
      [] type = "DateTime" ->
            IF value.type # "Timestamp" THEN Thrown(TypeMismatch("Timestamp", value, name))
            ELSE Inserted(Append(column, SubSeq(value.value, 1, 32)))

\* faulty variant whose DateTime case throws the String case's exception
insertValue_DateTimeCopyPaste(column, type, value, name) ==
    CASE type \in NumberTypes -> insertNumber(type, column, value, name)
      [] type = "String" ->
            IF value.type # "String" THEN Thrown(TypeMismatch("String", value, name))
            ELSE Inserted(insertDataWithTerminatingZero(
                     column, CStr(value.value), Len(value.value) + 1))
      [] type = "Date" ->
            IF value.type # "Timestamp" THEN Thrown(TypeMismatch("Timestamp", value, name))
            ELSE Inserted(Append(column, Bits(toDayNum(value.value), 16)))
      [] type = "DateTime" ->
            IF value.type # "Timestamp" THEN Thrown(TypeMismatch("String", value, name))
            ELSE Inserted(Append(column, SubSeq(value.value, 1, 32)))

insertValue(column, type, value, name) ==
    CASE type \in NumberTypes -> insertNumber(type, column, value, name)
      [] type = "String" ->
            IF value.type # "String" THEN Thrown(TypeMismatch("String", value, name))
            ELSE Inserted(insertDataWithTerminatingZero(
                     column, CStr(value.value), Len(value.value) + 1))
      [] type = "Date" ->
            IF value.type # "Timestamp" THEN Thrown(TypeMismatch("Timestamp", value, name))
            ELSE Inserted(Append(column, Bits(toDayNum(value.value), 16)))
      [] type = "DateTime" ->
            IF value.type # "Timestamp" THEN Thrown(TypeMismatch("Timestamp", value, name))
            ELSE Inserted(Append(column, SubSeq(value.value, 1, 32)))

\* insertDefaultValue(column, sample_column): the sample column's value 0
insertDefaultValue(column, sample_column) == Append(column, sample_column[1])

(***************************************************************************)
(*                               State                                     *)
(***************************************************************************)
VARIABLES
    description,     \* ExternalResultDescription: sample_block, names, types, sample_columns
    max_block_size,  \* the block size cap given to the constructor
    all_read,        \* the stream's exhaustion flag
    pc,              \* position of the consumer thread: "idle" or inside readImpl
    block,           \* readImpl's local block (sequence of columns with name and type)
    num_rows,        \* readImpl's local row counter
    response,        \* the ResponseMessage the last cursor->next returned to this call
    ret,             \* what the last finished readImpl call returned or threw
    pulls,           \* history: number of cursor->next calls issued so far
    pulled,          \* history: the documents of all pages pulled so far, in pull order
    zero_seen,       \* history: some pull has returned a page with cursorID 0
    returned,        \* history: the rows of all blocks returned so far, in call order
    failed,          \* history: some readImpl call has thrown
    call,            \* history of the call in flight or last finished
    lost,            \* history: the positions in pulled of the documents of calls that threw
    conv_document,   \* field step on its own: the document it is given
    conv_result      \* field step on its own: what it produced

vars == <<description, max_block_size, all_read, pc, block, num_rows, response, ret,
          pulls, pulled, zero_seen, returned, failed, call, lost,
          conv_document, conv_result>>

(***************************************************************************)
(*                  Schemas, documents, pages (inputs)                     *)
(***************************************************************************)
Str_a == <<97>>
Str_b == <<98>>
Str_x == <<120>>
Str_abc == <<97, 98, 99>>
Str_7 == <<55>>
Str_a0b == <<97, 0, 98>>

Field(name, element) == [name |-> name, element |-> element]

\* one column of the sample block: name, declared type, and the one-value sample
\* column that holds its default
SampleColumn(name, type, default) == [name |-> name, type |-> type, column |-> <<default>>]

\* ExternalResultDescription::init(sample_block)
init(sample_block) ==
    [sample_block |-> sample_block,
     names |-> [i \in 1..Len(sample_block) |-> sample_block[i].name],
     types |-> [i \in 1..Len(sample_block) |-> sample_block[i].type],
     sample_columns |-> [i \in 1..Len(sample_block) |-> sample_block[i].column]]

\* the sample blocks the stream is constructed with
SampleBlocks ==
    { <<SampleColumn("id", "UInt32", Zeros(32)), SampleColumn("name", "String", <<>>)>>,
      <<SampleColumn("name", "String", Str_x), SampleColumn("id", "UInt8", Bits(7, 8))>> }

\* the documents the cursor hands out
Documents ==
    { <<Field("id", Element("Int32", Bits(1, 32))), Field("name", Element("String", Str_a))>>,
      <<Field("id", Element("Int64", Bits(300, 64)))>>,
      <<Field("id", Element("Int32", Bits(3, 32))), Field("name", Element("Int32", Bits(5, 32)))>>,
      <<Field("name", Element("String", Str_b)), Field("id", Element("String", Str_abc))>> }

\* cursor ids a response carries: 0 closes the cursor
CursorIDs == {0, 7}

SeqsUpTo(S, n) == UNION {[1..k -> S] : k \in 0..n}

\* the responses cursor->next can return with at most n documents
Responses(n) ==
    {[documents |-> d, cursorID |-> c] : d \in SeqsUpTo(Documents, n), c \in CursorIDs}

NoResponse == [documents |-> <<>>, cursorID |-> -1]

\* what cursor->next throws on a transport failure
TransportError == [code |-> "POCO_EXCEPTION", message |-> <<"Network error">>]

(***************************************************************************)
(*                               readImpl                                  *)
(***************************************************************************)
\* Block{}: the block without columns
EmptyBlock == <<>>

\* Block::cloneEmpty(): the same columns, names and types, without rows
cloneEmpty(sample_block) ==
    [i \in 1..Len(sample_block) |-> [sample_block[i] EXCEPT !.column = <<>>]]

\* faulty variant that appends nothing for an absent field
InsertField_SkipAbsent(column, idx, document) ==
    LET name == description.names[idx]
        value == Get(document, name)
    IN  IF value = <<>>
        THEN Inserted(column)
        ELSE insertValue(column, description.types[idx], value[1], name)

\* faulty variant that converts an absent field like a present Null element
InsertField_AbsentAsNull(column, idx, document) ==
    LET name == description.names[idx]
        value == Get(document, name)
    IN  insertValue(column, description.types[idx],
                    IF value = <<>> THEN Element("Null", <<>>) ELSE value[1], name)

\* the body of the loop over the columns: default for an absent field, conversion
\* for a present one
InsertField(column, idx, document) ==
    LET name == description.names[idx]
        value == Get(document, name)
    IN  IF value = <<>>
        THEN Inserted(insertDefaultValue(column, description.sample_columns[idx]))
        ELSE insertValue(column, description.types[idx], value[1], name)

RECURSIVE InsertFields(_, _, _)
\* the loop over the columns idx..size for one document; b is the block so far
InsertFields(b, document, idx) ==
    IF idx > Len(b) THEN [ok |-> TRUE, block |-> b, exception |-> NoException]
    ELSE LET r == InsertField(b[idx].column, idx, document)
         IN  IF r.ok
             THEN InsertFields([b EXCEPT ![idx].column = r.column], document, idx + 1)
             ELSE [ok |-> FALSE, block |-> b, exception |-> r.exception]

RECURSIVE InsertDocuments_Capped(_, _, _)
\* faulty variant that tests the cap inside the page and drops the documents beyond it
InsertDocuments_Capped(b, n, documents) ==
    IF documents = <<>> \/ ~(n < max_block_size)
    THEN [ok |-> TRUE, block |-> b, num_rows |-> n, exception |-> NoException]
    ELSE LET r == InsertFields(b, Head(documents), 1)
         IN  IF r.ok THEN InsertDocuments_Capped(r.block, n + 1, Tail(documents))
             ELSE [ok |-> FALSE, block |-> r.block, num_rows |-> n + 1,
                   exception |-> r.exception]

RECURSIVE InsertDocuments(_, _, _)
\* the loop over response.documents(): one row per document
InsertDocuments(b, n, documents) ==
    IF documents = <<>>
    THEN [ok |-> TRUE, block |-> b, num_rows |-> n, exception |-> NoException]
    ELSE LET r == InsertFields(b, Head(documents), 1)
         IN  IF r.ok THEN InsertDocuments(r.block, n + 1, Tail(documents))
             ELSE [ok |-> FALSE, block |-> r.block, num_rows |-> n + 1,
                   exception |-> r.exception]

\* the rows of a block, in order: Block::rows() is the size of its first column, and
\* row r holds the r-th value of every column (a column too short for r holds none)
Rows(b) ==
    IF b = EmptyBlock THEN <<>>
    ELSE [r \in 1..Len(b[1].column) |->
             [i \in 1..Len(b) |->
                 IF r <= Len(b[i].column) THEN <<b[i].column[r]>> ELSE <<>>]]

\* history of one readImpl call: the flag and the histories as the call found them,
\* its pulls, the documents it pulled, whether one of its pages had cursorID 0
\* late_pulls counts its pulls issued with max_block_size - 1 rows or more, late_full
\* those of them that returned documents
NoCall ==
    [all_read_before |-> FALSE, zero_seen_before |-> FALSE, returned_before |-> 0,
     pulls |-> 0, documents |-> <<>>, zero |-> FALSE, late_pulls |-> 0, late_full |-> 0]
Enter ==
    [NoCall EXCEPT !.all_read_before = all_read, !.zero_seen_before = zero_seen,
                   !.returned_before = Len(returned)]
NoReturn == [kind |-> "none", block |-> EmptyBlock, exception |-> NoException]
Returns(b) == [kind |-> "block", block |-> b, exception |-> NoException]
Throws(e) == [kind |-> "exception", block |-> EmptyBlock, exception |-> e]

ConvUnchanged == UNCHANGED <<conv_document, conv_result>>

\* the positions in pulled of the documents the call in flight has pulled
CallPositions == (Len(pulled) - Len(call.documents) + 1)..Len(pulled)

\* the pull about to be issued comes with max_block_size - 1 rows or more
Late == IF Len(call.documents) >= max_block_size - 1 THEN 1 ELSE 0

\* faulty variant without the early return: an exhausted stream enters the loop again
ReadImplAllRead_NoEarlyReturn ==
    /\ pc = "idle"
    /\ all_read
    /\ block' = cloneEmpty(description.sample_block)
    /\ num_rows' = 0
    /\ pc' = "while"
    /\ ret' = NoReturn
    /\ call' = Enter
    /\ UNCHANGED <<description, max_block_size, all_read, response,
                   pulls, pulled, zero_seen, returned, failed>>
    /\ UNCHANGED lost
    /\ ConvUnchanged

\* if (all_read) return {};
ReadImplAllRead ==
    /\ pc = "idle"
    /\ all_read
    /\ ret' = Returns(EmptyBlock)
    /\ call' = Enter
    /\ UNCHANGED <<description, max_block_size, all_read, pc, block, num_rows, response,
                   pulls, pulled, zero_seen, returned, failed>>
    /\ UNCHANGED lost
    /\ ConvUnchanged

\* faulty variant that starts from a copy of the sample block, rows included
ReadImplBegin_Clone ==
    /\ pc = "idle"
    /\ ~all_read
    /\ block' = description.sample_block
    /\ num_rows' = 0
    /\ pc' = "while"
    /\ ret' = NoReturn
    /\ call' = Enter
    /\ UNCHANGED <<description, max_block_size, all_read, response,
                   pulls, pulled, zero_seen, returned, failed>>
    /\ UNCHANGED lost
    /\ ConvUnchanged

\* Block block = description.sample_block.cloneEmpty(); size_t num_rows = 0;
ReadImplBegin ==
    /\ pc = "idle"
    /\ ~all_read
    /\ block' = cloneEmpty(description.sample_block)
    /\ num_rows' = 0
    /\ pc' = "while"
    /\ ret' = NoReturn
    /\ call' = Enter
    /\ UNCHANGED <<description, max_block_size, all_read, response,
                   pulls, pulled, zero_seen, returned, failed>>
    /\ UNCHANGED lost
    /\ ConvUnchanged

\* faulty variant whose loop condition is num_rows <= max_block_size
CursorNext_OffByOne ==
    /\ pc = "while"
    /\ num_rows <= max_block_size
    /\ pulls < MaxPulls
    /\ \E page \in Responses(MaxDocs) :
          /\ Len(pulled) + Len(page.documents) <= MaxTotalDocs
          /\ response' = page
          /\ pulled' = pulled \o page.documents
          /\ zero_seen' = (zero_seen \/ page.cursorID = 0)
          /\ call' = [call EXCEPT !.pulls = @ + 1,
                                  !.documents = @ \o page.documents,
                                  !.zero = (@ \/ page.cursorID = 0),
                                  !.late_pulls = @ + Late,
                                  !.late_full = IF page.documents = <<>> THEN @ ELSE @ + Late]
    /\ pulls' = pulls + 1
    /\ pc' = "documents"
    /\ UNCHANGED <<description, max_block_size, all_read, block, num_rows, ret,
                   returned, failed>>
    /\ UNCHANGED lost
    /\ ConvUnchanged

\* while (num_rows < max_block_size) { response = cursor->next(*connection);
CursorNext ==
    /\ pc = "while"
    /\ num_rows < max_block_size
    /\ pulls < MaxPulls
    /\ \E page \in Responses(MaxDocs) :
          /\ Len(pulled) + Len(page.documents) <= MaxTotalDocs
          /\ response' = page
          /\ pulled' = pulled \o page.documents
          /\ zero_seen' = (zero_seen \/ page.cursorID = 0)
          /\ call' = [call EXCEPT !.pulls = @ + 1,
                                  !.documents = @ \o page.documents,
                                  !.zero = (@ \/ page.cursorID = 0),
                                  !.late_pulls = @ + Late,
                                  !.late_full = IF page.documents = <<>> THEN @ ELSE @ + Late]
    /\ pulls' = pulls + 1
    /\ pc' = "documents"
    /\ UNCHANGED <<description, max_block_size, all_read, block, num_rows, ret,
                   returned, failed>>
    /\ UNCHANGED lost
    /\ ConvUnchanged

\* cursor->next(*connection) throws: the exception leaves readImpl
CursorNextThrows ==
    /\ pc = "while"
    /\ num_rows < max_block_size
    /\ pulls < MaxPulls
    /\ pulls' = pulls + 1
    /\ call' = [call EXCEPT !.pulls = @ + 1, !.late_pulls = @ + Late]
    /\ ret' = Throws(TransportError)
    /\ failed' = TRUE
    /\ lost' = lost \cup CallPositions
    /\ pc' = "idle"
    /\ block' = EmptyBlock
    /\ num_rows' = 0
    /\ UNCHANGED <<description, max_block_size, all_read, response, pulled, zero_seen,
                   returned>>
    /\ ConvUnchanged

\* faulty variant that leaves the loop on a page without documents
ProcessResponse_EmptyPageBreaks ==
    /\ pc = "documents"
    /\ LET r == InsertDocuments(block, num_rows, response.documents)
       IN  IF r.ok
           THEN /\ block' = r.block
                /\ num_rows' = r.num_rows
                /\ all_read' = IF response.cursorID = 0 THEN TRUE ELSE all_read
                /\ pc' = IF response.cursorID = 0 \/ response.documents = <<>>
                         THEN "return" ELSE "while"
                /\ UNCHANGED <<ret, failed, lost>>
           ELSE /\ ret' = Throws(r.exception)
                /\ failed' = TRUE
                /\ lost' = lost \cup CallPositions
                /\ pc' = "idle"
                /\ block' = EmptyBlock
                /\ num_rows' = 0
                /\ UNCHANGED all_read
    /\ response' = NoResponse
    /\ UNCHANGED <<description, max_block_size, pulls, pulled, zero_seen, returned, call>>
    /\ ConvUnchanged

\* faulty variant that sets all_read on cursorID 0 and stays in the loop
ProcessResponse_NoBreak ==
    /\ pc = "documents"
    /\ LET r == InsertDocuments(block, num_rows, response.documents)
       IN  IF r.ok
           THEN /\ block' = r.block
                /\ num_rows' = r.num_rows
                /\ all_read' = IF response.cursorID = 0 THEN TRUE ELSE all_read
                /\ pc' = "while"
                /\ UNCHANGED <<ret, failed, lost>>
           ELSE /\ ret' = Throws(r.exception)
                /\ failed' = TRUE
                /\ lost' = lost \cup CallPositions
                /\ pc' = "idle"
                /\ block' = EmptyBlock
                /\ num_rows' = 0
                /\ UNCHANGED all_read
    /\ response' = NoResponse
    /\ UNCHANGED <<description, max_block_size, pulls, pulled, zero_seen, returned, call>>
    /\ ConvUnchanged

\* faulty variant that returns the rows of the earlier pages when a document fails
ProcessResponse_ReturnsPartial ==
    /\ pc = "documents"
    /\ LET r == InsertDocuments(block, num_rows, response.documents)
       IN  IF r.ok
           THEN /\ block' = r.block
                /\ num_rows' = r.num_rows
                /\ all_read' = IF response.cursorID = 0 THEN TRUE ELSE all_read
                /\ pc' = IF response.cursorID = 0 THEN "return" ELSE "while"
                /\ UNCHANGED <<ret, failed, lost, returned>>
           ELSE /\ ret' = Returns(block)
                /\ returned' = returned \o Rows(block)
                /\ failed' = TRUE
                /\ lost' = lost \cup CallPositions
                /\ pc' = "idle"
                /\ block' = EmptyBlock
                /\ num_rows' = 0
                /\ UNCHANGED all_read
    /\ response' = NoResponse
    /\ UNCHANGED <<description, max_block_size, pulls, pulled, zero_seen, call>>
    /\ ConvUnchanged

\* faulty variant that tests the cursor id before it converts the documents
ProcessResponse_FlagFirst ==
    /\ pc = "documents"
    /\ all_read' = IF response.cursorID = 0 THEN TRUE ELSE all_read
    /\ LET r == InsertDocuments(block, num_rows, response.documents)
       IN  IF r.ok
           THEN /\ block' = r.block
                /\ num_rows' = r.num_rows
                /\ pc' = IF response.cursorID = 0 THEN "return" ELSE "while"
                /\ UNCHANGED <<ret, failed, lost>>
           ELSE /\ ret' = Throws(r.exception)
                /\ failed' = TRUE
                /\ lost' = lost \cup CallPositions
                /\ pc' = "idle"
                /\ block' = EmptyBlock
                /\ num_rows' = 0
    /\ response' = NoResponse
    /\ UNCHANGED <<description, max_block_size, pulls, pulled, zero_seen, returned, call>>
    /\ ConvUnchanged

\* faulty variant that also takes a page without documents for the end of the cursor
ProcessResponse_EmptyPageEnds ==
    /\ pc = "documents"
    /\ LET r == InsertDocuments(block, num_rows, response.documents)
           last == response.cursorID = 0 \/ response.documents = <<>>
       IN  IF r.ok
           THEN /\ block' = r.block
                /\ num_rows' = r.num_rows
                /\ all_read' = IF last THEN TRUE ELSE all_read
                /\ pc' = IF last THEN "return" ELSE "while"
                /\ UNCHANGED <<ret, failed, lost>>
           ELSE /\ ret' = Throws(r.exception)
                /\ failed' = TRUE
                /\ lost' = lost \cup CallPositions
                /\ pc' = "idle"
                /\ block' = EmptyBlock
                /\ num_rows' = 0
                /\ UNCHANGED all_read
    /\ response' = NoResponse
    /\ UNCHANGED <<description, max_block_size, pulls, pulled, zero_seen, returned, call>>
    /\ ConvUnchanged

\* for (document : response.documents()) { ... }
\* if (response.cursorID() == 0) { all_read = true; break; } }
ProcessResponse ==
    /\ pc = "documents"
    /\ LET r == InsertDocuments(block, num_rows, response.documents)
       IN  IF r.ok
           THEN /\ block' = r.block
                /\ num_rows' = r.num_rows
                /\ all_read' = IF response.cursorID = 0 THEN TRUE ELSE all_read
                /\ pc' = IF response.cursorID = 0 THEN "return" ELSE "while"
                /\ UNCHANGED <<ret, failed, lost>>
           ELSE /\ ret' = Throws(r.exception)
                /\ failed' = TRUE
                /\ lost' = lost \cup CallPositions
                /\ pc' = "idle"
                /\ block' = EmptyBlock
                /\ num_rows' = 0
                /\ UNCHANGED all_read
    /\ response' = NoResponse
    /\ UNCHANGED <<description, max_block_size, pulls, pulled, zero_seen, returned, call>>
    /\ ConvUnchanged

\* faulty variant that returns the rows of the block last pulled page first
ReadImplReturn_Reversed ==
    /\ \/ pc = "return"
       \/ pc = "while" /\ ~(num_rows < max_block_size)
    /\ LET b == IF num_rows = 0 THEN EmptyBlock
                ELSE [i \in 1..Len(block) |->
                         [block[i] EXCEPT !.column = Reverse(block[i].column)]]
       IN  /\ ret' = Returns(b)
           /\ returned' = returned \o Rows(b)
    /\ pc' = "idle"
    /\ block' = EmptyBlock
    /\ num_rows' = 0
    /\ UNCHANGED <<description, max_block_size, all_read, response, pulls, pulled,
                   zero_seen, failed, call>>
    /\ UNCHANGED lost
    /\ ConvUnchanged

\* if (num_rows == 0) return {}; return block;
ReadImplReturn ==
    /\ \/ pc = "return"
       \/ pc = "while" /\ ~(num_rows < max_block_size)
    /\ LET b == IF num_rows = 0 THEN EmptyBlock ELSE block
       IN  /\ ret' = Returns(b)
           /\ returned' = returned \o Rows(b)
    /\ pc' = "idle"
    /\ block' = EmptyBlock
    /\ num_rows' = 0
    /\ UNCHANGED <<description, max_block_size, all_read, response, pulls, pulled,
                   zero_seen, failed, call>>
    /\ UNCHANGED lost
    /\ ConvUnchanged

\* MongoDBBlockInputStream(connection, cursor, sample_block, max_block_size)
Init ==
    /\ description \in {init(sb) : sb \in SampleBlocks}
    /\ max_block_size \in 0..MaxBlockSize
    /\ all_read = FALSE
    /\ pc = "idle"
    /\ block = EmptyBlock
    /\ num_rows = 0
    /\ response = NoResponse
    /\ ret = NoReturn
    /\ pulls = 0
    /\ pulled = <<>>
    /\ zero_seen = FALSE
    /\ returned = <<>>
    /\ failed = FALSE
    /\ call = NoCall
    /\ lost = {}
    /\ conv_document = <<>>
    /\ conv_result = Thrown(NoException)

Next ==
    \/ ReadImplAllRead
    \/ ReadImplBegin
    \/ CursorNext
    \/ CursorNextThrows
    \/ ProcessResponse
    \/ ReadImplReturn

Spec == Init /\ [][Next]_vars

\* readImpl under a caller that lets a call run on: every cursor->next comes back,
\* with a response or with an exception, and the code after it is executed.
\* ProcessResponse is enabled exactly when pc = "documents" and always leaves it, so
\* its weak fairness is written on pc.
SpecLive ==
    /\ Init
    /\ [][Next]_vars
    /\ WF_vars(CursorNext \/ CursorNextThrows)
    /\ []<>(pc # "documents")
    /\ WF_vars(ReadImplReturn)

(***************************************************************************)
(*        The field step on its own: every column type, every element      *)
(***************************************************************************)
Float_2_5 == [neg |-> FALSE, m |-> <<1, 0, 1>>, e |-> -1]

\* the value 2^32 + 5 as an Int64
Int64_2p32_5 == Bits(5, 32) \o Bits(1, 32)

\* 1970-01-03 00:00:05 as epoch seconds
Time_2d5s == Bits(2 * SecondsPerDay + 5, 64)

\* present elements: every runtime type, values that widen, narrow and wrap
ConvElements ==
    { Element("Null", <<>>),
      Element("Bool", <<0>>), Element("Bool", <<1>>),
      Element("Int32", Bits(1, 32)), Element("Int32", Bits(-1, 32)),
      Element("Int32", Bits(70000, 32)),
      Element("Int64", Bits(300, 64)), Element("Int64", Bits(-129, 64)),
      Element("Int64", Int64_2p32_5),
      Element("Float64", Float_2_5),
      Element("String", Str_abc), Element("String", Str_7), Element("String", <<>>),
      Element("String", Str_a0b),
      Element("Timestamp", Time_2d5s), Element("Timestamp", Bits(SecondsPerDay - 1, 64)) }

\* the zero value and one other value of every column type
Defaults(T) ==
    CASE T \in IntTypes -> {Zeros(Width(T)), Bits(7, Width(T))}
      [] T \in FloatTypes -> {FloatZero, Float_2_5}
      [] T = "String" -> {<<>>, Str_x}
      [] T = "Date" -> {Zeros(16), Bits(7, 16)}
      [] T = "DateTime" -> {Zeros(32), Bits(7, 32)}

ConvSampleBlocks ==
    UNION {{<<SampleColumn("x", T, d)>> : d \in Defaults(T)} : T \in ValueType}

\* documents without the field "x", and with it
ConvDocuments ==
    {<<>>, <<Field("y", Element("Int32", Bits(1, 32)))>>}
        \cup {<<Field("x", e)>> : e \in ConvElements}
        \cup {<<Field("y", Element("Null", <<>>)), Field("x", e)>> : e \in ConvElements}

NotConverted == Thrown(NoException)

InitConv ==
    /\ description \in {init(sb) : sb \in ConvSampleBlocks}
    /\ conv_document \in ConvDocuments
    /\ conv_result = NotConverted
    /\ max_block_size = 1
    /\ all_read = FALSE
    /\ pc = "idle"
    /\ block = EmptyBlock
    /\ num_rows = 0
    /\ response = NoResponse
    /\ ret = NoReturn
    /\ pulls = 0
    /\ pulled = <<>>
    /\ zero_seen = FALSE
    /\ returned = <<>>
    /\ failed = FALSE
    /\ call = NoCall
    /\ lost = {}

\* one pass of the loop over the columns, for column 0 of a block without rows
ConvertField ==
    /\ conv_result = NotConverted
    /\ conv_result' = InsertField(<<>>, 1, conv_document)
    /\ UNCHANGED <<description, max_block_size, all_read, pc, block, num_rows, response,
                   ret, pulls, pulled, zero_seen, returned, failed, call, lost,
                   conv_document>>

NextConv == ConvertField

SpecConv == InitConv /\ [][NextConv]_vars

(***************************************************************************)
(*                              Properties                                 *)
(***************************************************************************)
Sentinel == Returns(EmptyBlock)

\* C1, as stated: once any pull has returned a page with cursorID 0, every later
\* readImpl call issues no pull and returns the empty block.
C1_StickyAfterAnyZeroPage ==
    call.zero_seen_before => (call.pulls = 0 /\ (pc = "idle" => ret = Sentinel))

\* C1, amended: a page with cursorID 0 whose documents were all converted sets
\* all_read, and once all_read is set every later readImpl call returns the empty
\* block, issues no pull and leaves all_read set.
C1_StickyOnceAllRead ==
    /\ [](call.zero /\ pc # "documents" /\ ret.kind # "exception" => all_read)
    /\ [][all_read /\ pc = "idle" =>
            all_read' /\ pc' = "idle" /\ ret' = Sentinel /\ pulls' = pulls]_vars

\* a second call after exhaustion has returned the empty block
C1_Witness ==
    /\ all_read /\ pc = "idle" /\ call.all_read_before /\ ret = Sentinel
    /\ pulls > 0 /\ zero_seen

\* C2: every document of every page pulled by a call that returns contributes one
\* row to the block that call returns, also beyond max_block_size.
C2_PageNeverSplit ==
    (pc = "idle" /\ ret.kind = "block") => Len(Rows(ret.block)) = Len(call.documents)

\* one page of 3 documents under max_block_size = 2 came back as a block of 3 rows
C2_Witness ==
    /\ pc = "idle" /\ ret.kind = "block" /\ max_block_size = 2
    /\ call.pulls = 1 /\ Len(call.documents) = 3 /\ Len(Rows(ret.block)) = 3

\* C3: a returned block that is not the empty block has one column per description
\* column, with its name and type and in its order, and every column has as many
\* values as the call pulled documents.
C3_BlockShape ==
    (pc = "idle" /\ ret.kind = "block" /\ ret.block # EmptyBlock) =>
        /\ Len(ret.block) = Len(description.names)
        /\ \A i \in 1..Len(ret.block) :
              /\ ret.block[i].name = description.names[i]
              /\ ret.block[i].type = description.types[i]
              /\ Len(ret.block[i].column) = Len(call.documents)

\* a block of two rows, one of them from a document that lacks a field
C3_Witness ==
    /\ pc = "idle" /\ ret.kind = "block" /\ Len(ret.block) = 2
    /\ Len(ret.block[1].column) = 2
    /\ \E r \in 1..2 : \E i \in 1..2 : Get(call.documents[r], description.names[i]) = <<>>

\* the row a document stands for: per column the default when the field is absent,
\* else the converted element
RowOf(document) ==
    [i \in 1..Len(description.names) |-> <<InsertField(<<>>, i, document).column[1]>>]

\* C4: while no call has failed, the rows returned so far, in call order, are the
\* rows of the documents pulled so far, in pull order, one row per document.
C4_NoLossNoReorder ==
    (pc = "idle" /\ ~failed) => returned = [r \in 1..Len(pulled) |-> RowOf(pulled[r])]

\* two calls returned three rows of pairwise different documents
C4_Witness ==
    /\ pc = "idle" /\ ~failed /\ Len(returned) = 3 /\ call.returned_before > 0
    /\ pulled[1] # pulled[2] /\ pulled[2] # pulled[3] /\ call.pulls = 1
    /\ Len(call.documents) = 2

\* C5: a call that throws returns no block and leaves all_read as it found it.
C5_FailureKeepsFlag ==
    (pc = "idle" /\ ret.kind = "exception") =>
        /\ ret.exception.code \in {"TYPE_MISMATCH", "CANNOT_PARSE_TEXT", "POCO_EXCEPTION"}
        /\ Len(returned) = call.returned_before
        /\ all_read = call.all_read_before

\* a type mismatch in the second page of a call, a page with cursorID 0
C5_Witness ==
    /\ pc = "idle" /\ ret.kind = "exception" /\ ret.exception.code = "TYPE_MISMATCH"
    /\ call.zero /\ call.pulls = 2 /\ Len(call.documents) = 3

\* C6: all_read starts false, is set only by the step that processes a page with
\* cursorID 0, is never reset, and a readImpl call on a stream with all_read set
\* returns the empty block and changes nothing else.
C6_OpenExhausted ==
    /\ ~all_read
    /\ [][/\ all_read => all_read'
          /\ (~all_read /\ all_read') => (pc = "documents" /\ response.cursorID = 0)
          /\ (all_read /\ pc = "idle") =>
                /\ ret' = Sentinel
                /\ UNCHANGED <<description, max_block_size, all_read, pc, block, num_rows,
                               response, pulls, pulled, zero_seen, returned, failed>>]_vars

\* the stream has just become exhausted by a page that carried documents
C6_Witness == all_read /\ pc = "return" /\ num_rows > 0 /\ call.pulls = 2

(***************************************************************************)
(*                   Properties of the field step                          *)
(***************************************************************************)
ConvDone == conv_result # NotConverted
ConvType == description.types[1]
ConvName == description.names[1]
ConvDefault == description.sample_columns[1][1]

\* the document has no field of the column's name
ConvAbsent == \A i \in 1..Len(conv_document) : conv_document[i].name # ConvName

\* the element of the column's name in a document that has one
ConvElement ==
    conv_document[CHOOSE i \in 1..Len(conv_document) : conv_document[i].name = ConvName].element

\* C7: for a column of any type, a document without a field of the column's name
\* gets the column's default appended, and nothing is thrown.
C7_AbsentDefaulted ==
    (ConvDone /\ ConvAbsent) => conv_result = Inserted(<<ConvDefault>>)

\* a Date column with default 7 took its default for a document with other fields only
C7_Witness ==
    /\ ConvDone /\ ConvAbsent /\ ConvType = "Date" /\ Len(conv_document) = 1
    /\ conv_result.column = <<Bits(7, 16)>>

\* C8: a String column takes a String element unchanged and throws TYPE_MISMATCH
\* for an element of any other runtime type.
C8_StringTarget ==
    (ConvDone /\ ~ConvAbsent /\ ConvType = "String") =>
        IF ConvElement.type = "String"
        THEN conv_result = Inserted(<<ConvElement.value>>)
        ELSE ~conv_result.ok /\ conv_result.exception.code = "TYPE_MISMATCH"

\* the string "abc" arrived in a String column as "abc"
C8_Witness ==
    /\ ConvDone /\ ConvType = "String" /\ ~ConvAbsent
    /\ ConvElement = Element("String", Str_abc)
    /\ conv_result.ok /\ conv_result.column = <<Str_abc>>

Pow2(n) == 2 ^ n

\* bit i of an integer-valued element widened to any width: Int32 and Int64 are
\* signed, bool is 0 or 1
SourceBit(e, i) ==
    IF i <= Len(e.value) THEN e.value[i]
    ELSE IF e.type = "Bool" THEN 0 ELSE e.value[Len(e.value)]

\* the element's value fits 31 bits, so that it can be computed with
IsSmall(e) == e.type = "Bool" \/ \A i \in 31..Len(e.value) : e.value[i] = e.value[31]
SmallValue(e) ==
    IF e.type = "Bool" THEN e.value[1]
    ELSE ToNat(SubSeq(e.value, 1, 30)) - (IF e.value[31] = 1 THEN Pow2(30) ELSE 0)

\* C9: a Bool, Int32 or Int64 element of value v put into an integer column of
\* width w never throws and is stored as v mod 2^w: the w low bits of v in two's
\* complement, read with the column type's signedness; Int64 300 into UInt8 is 44.
C9_NarrowingWraps ==
    (ConvDone /\ ~ConvAbsent /\ ConvType \in IntTypes
        /\ ConvElement.type \in {"Bool", "Int32", "Int64"}) =>
        /\ conv_result.ok
        /\ Len(conv_result.column) = 1
        /\ LET stored == conv_result.column[1]
               w == Width(ConvType)
               v == SmallValue(ConvElement)
           IN  /\ Len(stored) = w
               /\ \A i \in 1..w : stored[i] = SourceBit(ConvElement, i)
               /\ (IsSmall(ConvElement) /\ w <= 16) =>
                     /\ ToNat(stored) = v % Pow2(w)
                     /\ IsSigned(ConvType) =>
                           ToInt(stored) = ((v + Pow2(w - 1)) % Pow2(w)) - Pow2(w - 1)
               /\ (ConvElement = Element("Int64", Bits(300, 64)) /\ ConvType = "UInt8") =>
                     ToNat(stored) = 44

\* Int64 300 arrived in a UInt8 column as 44
C9_Witness ==
    /\ ConvDone /\ ConvType = "UInt8" /\ ~ConvAbsent
    /\ ConvElement = Element("Int64", Bits(300, 64))
    /\ conv_result.ok /\ ToNat(conv_result.column[1]) = 44

\* the type a mismatch message says was expected
ExpectedText(T) ==
    IF T \in NumberTypes THEN "a number" ELSE IF T = "String" THEN "String" ELSE "Timestamp"

\* C10: a TYPE_MISMATCH exception names, in this order, the expected type (a number,
\* String or Timestamp, by the column's type), the type id of the element found and
\* the column.
C10_MismatchMessage ==
    (ConvDone /\ ~conv_result.ok /\ conv_result.exception.code = "TYPE_MISMATCH") =>
        /\ ~ConvAbsent
        /\ LET msg == conv_result.exception.message
           IN  \E i, j, k \in 1..Len(msg) :
                  /\ i < j /\ j < k
                  /\ msg[i] = ExpectedText(ConvType)
                  /\ msg[j] = ConvElement.type
                  /\ msg[k] = ConvName

\* a Null element for a DateTime column was refused
C10_Witness ==
    /\ ConvDone /\ ConvType = "DateTime" /\ ~ConvAbsent /\ ConvElement.type = "Null"
    /\ ~conv_result.ok /\ conv_result.exception.code = "TYPE_MISMATCH"

(***************************************************************************)
(*               Properties of the loop and of null and time               *)
(***************************************************************************)
\* C11: a pull is issued only by a call that has pulled fewer than max_block_size
\* documents and no page with cursorID 0; so a block returned by a call that did not
\* set all_read has at least max_block_size rows, and a block of fewer rows comes
\* only from the call that set all_read.
C11_CapGatesPulls ==
    /\ [][pulls' # pulls =>
            (pc = "while" /\ Len(call.documents) < max_block_size /\ ~call.zero)]_vars
    /\ []((pc = "idle" /\ ret.kind = "block" /\ ret.block # EmptyBlock) =>
            /\ (all_read = call.all_read_before) =>
                  Len(Rows(ret.block)) >= max_block_size
            /\ Len(Rows(ret.block)) < max_block_size =>
                  (all_read /\ ~call.all_read_before))

\* a call of two pulls returned a block of max_block_size rows or more and left the
\* stream open
C11_Witness ==
    /\ pc = "idle" /\ ret.kind = "block" /\ ~all_read /\ call.pulls = 2
    /\ max_block_size = 2 /\ Len(Rows(ret.block)) = 3

\* C12: a present Null element puts the zero of the type into a column of any
\* integer or float type, whatever the column's default; for a String, Date or
\* DateTime column it throws TYPE_MISMATCH.
C12_NullAsymmetry ==
    (ConvDone /\ ~ConvAbsent /\ ConvElement.type = "Null") =>
        IF ConvType \in IntTypes
        THEN conv_result = Inserted(<<[i \in 1..Width(ConvType) |-> 0]>>)
        ELSE IF ConvType \in FloatTypes
        THEN conv_result = Inserted(<<[neg |-> FALSE, m |-> <<>>, e |-> 0]>>)
        ELSE ~conv_result.ok /\ conv_result.exception.code = "TYPE_MISMATCH"

\* a Float32 column of default 2.5 took 0 for a Null element
C12_Witness ==
    /\ ConvDone /\ ~ConvAbsent /\ ConvElement.type = "Null" /\ ConvType = "Float32"
    /\ ConvDefault = Float_2_5 /\ conv_result.ok /\ conv_result.column = <<FloatZero>>

\* C13: a DateTime column stores a Timestamp element's epoch seconds in 32 bits, a
\* Date column the day number of the epoch seconds in 16 bits; an element of any
\* other runtime type throws TYPE_MISMATCH.
C13_DateTargets ==
    (ConvDone /\ ~ConvAbsent /\ ConvType \in {"Date", "DateTime"}) =>
        IF ConvElement.type = "Timestamp"
        THEN /\ conv_result.ok
             /\ Len(conv_result.column) = 1
             /\ LET stored == conv_result.column[1]
                    seconds == ToNat(ConvElement.value)
                IN  IF ConvType = "DateTime"
                    THEN /\ Len(stored) = 32
                         /\ \A i \in 1..32 : stored[i] = ConvElement.value[i]
                         /\ ToNat(stored) = seconds
                    ELSE /\ Len(stored) = 16
                         /\ ToNat(stored) = seconds \div (24 * 60 * 60)
        ELSE ~conv_result.ok /\ conv_result.exception.code = "TYPE_MISMATCH"

\* the time 1970-01-03 00:00:05 arrived in a Date column as day 2
C13_Witness ==
    /\ ConvDone /\ ~ConvAbsent /\ ConvType = "Date"
    /\ ConvElement = Element("Timestamp", Time_2d5s)
    /\ conv_result.ok /\ ToNat(conv_result.column[1]) = 2

\* C14: with max_block_size > 0 a call that returns the empty block leaves all_read
\* set; after a page without documents and with a cursorID other than 0 the call is
\* back at the loop condition with fewer than max_block_size rows, nothing returned.
C14_SentinelMeansEnd ==
    /\ []((max_block_size > 0 /\ pc = "idle" /\ ret = Sentinel) => all_read)
    /\ [][(pc = "documents" /\ response.documents = <<>> /\ response.cursorID # 0) =>
            (pc' = "while" /\ num_rows' < max_block_size /\ ret' = NoReturn
                /\ ~all_read')]_vars

\* a call pulled a page without documents, pulled again, and returned the empty
\* block with all_read set
C14_Witness ==
    /\ max_block_size > 0 /\ pc = "idle" /\ ret = Sentinel
    /\ all_read /\ ~call.all_read_before /\ call.pulls = 2

(***************************************************************************)
(*                  Termination, failure, and the schema                   *)
(***************************************************************************)
\* the cursor has given this call neither a page with cursorID 0 nor max_block_size
\* documents, and gives nothing more
Blocked ==
    /\ pc = "while" /\ pulls >= MaxPulls
    /\ ~call.zero /\ Len(call.documents) < max_block_size

\* C15 as stated: every call comes to its return or its exception unless the cursor
\* stops short of a page with cursorID 0 and of max_block_size documents, and a call
\* issues at most one pull once it has max_block_size - 1 rows.
C15_OnePullAfterCapMinusOne ==
    /\ (pc # "idle") ~> (pc = "idle" \/ Blocked)
    /\ [](call.late_pulls <= 1)

\* C15: every call comes to its return or its exception unless the cursor stops
\* short of a page with cursorID 0 and of max_block_size documents; once a call has
\* max_block_size - 1 rows, at most one of its pulls returns documents, while pages
\* without documents and with a cursorID other than 0 are each followed by a pull.
C15_Terminates ==
    /\ (pc # "idle") ~> (pc = "idle" \/ Blocked)
    /\ [](call.late_full <= 1)
    /\ [][(pc = "documents" /\ response.documents = <<>> /\ response.cursorID # 0
              /\ max_block_size > 0) => pc' = "while" /\ num_rows' = num_rows]_vars

\* a call with max_block_size - 1 rows pulled a page without documents, pulled
\* again, and returned a block
C15_Witness ==
    /\ pc = "idle" /\ ret.kind = "block" /\ ret.block # EmptyBlock
    /\ call.late_pulls = 2 /\ call.late_full = 1

\* the positions in pulled that no call has lost, in order
Kept == SelectSeq([i \in 1..Len(pulled) |-> i], LAMBDA i : i \notin lost)

\* C16: a call that throws returns no row, not of the page that failed and not of
\* the pages it pulled before; the documents pulled stay pulled, and the rows
\* returned over all calls are the rows of the documents pulled by the calls that
\* did not throw.
C16_FailedCallLosesItsPages ==
    /\ [](pc = "idle" =>
            /\ returned = [r \in 1..Len(Kept) |-> RowOf(pulled[Kept[r]])]
            /\ ret.kind = "exception" =>
                  /\ Len(returned) = call.returned_before
                  /\ CallPositions \subseteq lost)
    /\ [][/\ pulls' >= pulls
          /\ Len(pulled') >= Len(pulled)
          /\ SubSeq(pulled', 1, Len(pulled)) = pulled
          /\ lost \subseteq lost']_vars

\* a call failed in its second page, after a first page of one good document; a
\* later call returned the row of the third document only
C16_Witness ==
    /\ pc = "idle" /\ ret.kind = "block" /\ lost = {1, 2}
    /\ Len(pulled) = 3 /\ returned = <<RowOf(pulled[3])>>


\* a call has just begun: its block has the columns of the description, by name
\* and type in the description's order, and no row
StartsEmpty ==
    (pc = "while" /\ call.pulls = 0) =>
        /\ Len(block) = Len(description.names)
        /\ \A i \in 1..Len(block) :
              /\ block[i].name = description.names[i]
              /\ block[i].type = description.types[i]
              /\ block[i].column = <<>>

\* a returned block has one row per document the call pulled, and no other row
OnlyOwnRows ==
    (pc = "idle" /\ ret.kind = "block" /\ ret.block # EmptyBlock) =>
        Len(Rows(ret.block)) = Len(call.documents)

====
